---- MODULE Spec2Model ----
(***************************************************************************)
(* batsign: the API key store (internal/server/store.go) and the Envoy     *)
(* ext_authz Check handler built on it.                                     *)
(*                                                                         *)
(* Processes: the caller of APIKeyStore.Start (spc), the watch goroutine   *)
(* started by it (lpc), one request worker calling Check, ValidateKey or   *)
(* GetStats (wpc), and the environment (the Kubernetes API the store lists *)
(* and watches, Stop, cancellation of the context).  The sync.RWMutex is   *)
(* explicit: every step that the code takes between two lock operations is *)
(* one action.                                                             *)
(*                                                                         *)
(* Header values and credentials are sequences of characters; key hashes,  *)
(* names and descriptions are strings, "" being Go's zero value.  The      *)
(* email and keyHint fields of an entry are copied verbatim and only read  *)
(* by log lines, so entries do not carry them.                              *)
(***************************************************************************)
EXTENDS Integers, Sequences, FiniteSets, TLC

VARIABLES
    keyHashes,  \* APIKeyStore.keyHashes: key hash -> entry
    mu,         \* APIKeyStore.mu: [writer, readers]
    stopCh,     \* APIKeyStore.stopCh: "open" | "closed"
    ctxDone,    \* the context handed to Start has been cancelled
    spc,        \* position of the caller of Start / syncAPIKeys
    list,       \* syncAPIKeys: list.Items
    item,       \* syncAPIKeys: position of the range loop in list.Items
    lpc,        \* position of the watchAPIKeys goroutine
    event,      \* watchAPIKeys: the event handed to handleWatchEvent
    wpc,        \* position of the request worker
    wcall,      \* the worker's current (or last) call
    wres,       \* the worker's local result / returned value
    old,        \* history: the map syncAPIKeys replaced
    replaced,   \* history: the entry the event in hand found under its key
    hist,       \* history: what the specification at hand records of the run
    source      \* the API server: the records it has and the events it has
                \* queued for the open watch, where a specification follows them

vars == <<keyHashes, mu, stopCh, ctxDone, spc, list, item, lpc, event,
          wpc, wcall, wres, old, replaced, hist, source>>

storeVars  == <<keyHashes, mu>>
syncVars   == <<spc, list, item, old>>
loopVars   == <<lpc, event, replaced>>
workerVars == <<wpc, wcall, wres>>
stopVars   == <<stopCh, ctxDone>>

(***************************************************************************)
(* Bounds                                                                  *)
(***************************************************************************)
MaxList == 2    \* most items a List call returns

(***************************************************************************)
(* Strings                                                                 *)
(***************************************************************************)
EmptyString == <<>>

Bearer == <<"B", "e", "a", "r", "e", "r", " ">>

HasPrefix(s, prefix) ==
    /\ Len(s) >= Len(prefix)
    /\ SubSeq(s, 1, Len(prefix)) = prefix

\* fault: the cut starts one character early, the blank stays
TrimPrefixOffByOne(s, prefix) ==
    IF HasPrefix(s, prefix) THEN SubSeq(s, Len(prefix), Len(s)) ELSE s

TrimPrefix(s, prefix) ==
    IF HasPrefix(s, prefix) THEN SubSeq(s, Len(prefix) + 1, Len(s)) ELSE s

RECURSIVE Str(_)
Str(s) == IF s = <<>> THEN "" ELSE Head(s) \o Str(Tail(s))

KeyA == <<"s", "k", "-", "A">>
KeyB == <<"s", "k", "-", "B">>
Credentials == {KeyA, KeyB}

\* SHA-256 in lower-case hex: injective on the credentials used here and
\* never the empty string.
HashAPIKey(apiKey) == "sha256(" \o Str(apiKey) \o ")"

Hashes == {HashAPIKey(c) : c \in Credentials}

(***************************************************************************)
(* The APIKey objects of the authoritative source (unstructured)           *)
(***************************************************************************)
NoFields == [f \in {} |-> f]

Names == {"n1", "n2"}
Descriptions == {"d1", "d2"}

\* every spec map: keyHash and enabled present or not
SpecMaps ==
    { kh @@ en @@ de :
        kh \in {NoFields} \cup {[keyHash |-> h] : h \in Hashes},
        en \in {NoFields} \cup {[enabled |-> b] : b \in BOOLEAN},
        de \in {[description |-> d] : d \in Descriptions} }

NoSpecObjects == {[kind |-> "Unstructured", name |-> n] : n \in Names}

Objects ==
    NoSpecObjects \cup
    {[kind |-> "Unstructured", name |-> n, spec |-> s] : n \in Names, s \in SpecMaps}

\* well-formed objects only: every field present, one description
CoreObjects ==
    {[kind |-> "Unstructured", name |-> n,
      spec |-> [keyHash |-> h, enabled |-> b, description |-> "d1"]] :
        n \in Names, h \in Hashes, b \in BOOLEAN}

StatusObject == [kind |-> "Status"]

Lists(objs) == UNION {[1..n -> objs] : n \in 0..MaxList}

EventTypes == {"ADDED", "MODIFIED", "DELETED"}

Events(objs) ==
    [type : EventTypes, object : objs]
        \cup {[type |-> "BOOKMARK", object |-> o] : o \in NoSpecObjects}
        \cup {[type |-> "ERROR", object |-> StatusObject]}

NoEvent == [type |-> "none"]

(***************************************************************************)
(* models.APIKeyEntry and parseAPIKey                                      *)
(***************************************************************************)
Nil == [nil |-> TRUE]

\* fault: a record without an enabled field is stored disabled
ParseAPIKeyDefaultDisabled(obj) ==
    IF "spec" \notin DOMAIN obj
    THEN Nil
    ELSE [Name        |-> obj.name,
          KeyHash     |-> IF "keyHash" \in DOMAIN obj.spec
                          THEN obj.spec.keyHash ELSE "",
          Description |-> IF "description" \in DOMAIN obj.spec
                          THEN obj.spec.description ELSE "",
          Enabled     |-> IF "enabled" \in DOMAIN obj.spec
                          THEN obj.spec.enabled ELSE FALSE]

ParseAPIKey(obj) ==
    IF "spec" \notin DOMAIN obj
    THEN Nil
    ELSE [Name        |-> obj.name,
          KeyHash     |-> IF "keyHash" \in DOMAIN obj.spec
                          THEN obj.spec.keyHash ELSE "",
          Description |-> IF "description" \in DOMAIN obj.spec
                          THEN obj.spec.description ELSE "",
          Enabled     |-> IF "enabled" \in DOMAIN obj.spec
                          THEN obj.spec.enabled ELSE TRUE]

(***************************************************************************)
(* The map                                                                 *)
(***************************************************************************)
EmptyIndex == [k \in {} |-> Nil]

\* fault: the entry replaces every entry of the same name
UpsertReplacesName(idx, entry) ==
    (entry.KeyHash :> entry) @@
        [k \in {j \in DOMAIN idx : idx[j].Name # entry.Name} |-> idx[k]]

Upsert(idx, entry) == (entry.KeyHash :> entry) @@ idx

\* fault: a delete that resets the map
RemoveClears(idx, keyHash) == [k \in {} |-> idx[k]]

Remove(idx, keyHash) == [k \in DOMAIN idx \ {keyHash} |-> idx[k]]

Lookup(idx, keyHash) == IF keyHash \in DOMAIN idx THEN idx[keyHash] ELSE Nil

\* fault: the enabled flag is not consulted
ValidateKeyIgnoringEnabled(idx, keyHash) == keyHash \in DOMAIN idx

\* fault: a hash the map does not have passes
ValidateKeyUnknownPasses(idx, keyHash) ==
    IF keyHash \notin DOMAIN idx THEN TRUE ELSE idx[keyHash].Enabled

\* ValidateKey between RLock and RUnlock
ValidateKey(idx, keyHash) ==
    IF keyHash \notin DOMAIN idx THEN FALSE ELSE idx[keyHash].Enabled

\* one iteration of the range loop of syncAPIKeys
SyncStep(idx, obj) ==
    LET entry == ParseAPIKey(obj)
    IN  IF entry # Nil THEN Upsert(idx, entry) ELSE idx

\* the whole range loop of syncAPIKeys, from the fresh map
RECURSIVE SyncFold(_, _)
SyncFold(idx, items) ==
    IF items = <<>> THEN idx
    ELSE SyncFold(SyncStep(idx, Head(items)), Tail(items))

SyncResult(items) == SyncFold(EmptyIndex, items)

\* fault: no case for watch.Deleted
HandleSwitchNoDelete(idx, type, entry) ==
    CASE type \in {"ADDED", "MODIFIED"} -> Upsert(idx, entry)
      [] OTHER                          -> idx

\* fault: an entry already in the map is kept
HandleSwitchKeepExisting(idx, type, entry) ==
    CASE type \in {"ADDED", "MODIFIED"} ->
            IF entry.KeyHash \in DOMAIN idx THEN idx ELSE Upsert(idx, entry)
      [] type = "DELETED"               -> Remove(idx, entry.KeyHash)
      [] OTHER                          -> idx

\* the switch of handleWatchEvent
HandleSwitch(idx, type, entry) ==
    CASE type \in {"ADDED", "MODIFIED"} -> Upsert(idx, entry)
      [] type = "DELETED"               -> Remove(idx, entry.KeyHash)
      [] OTHER                          -> idx

\* the type assertion and the parse at the head of handleWatchEvent
HandleEntry(ev) ==
    IF ev.object.kind # "Unstructured" THEN Nil ELSE ParseAPIKey(ev.object)

\* the counting loop of GetStats
CountStats(idx) ==
    [enabled  |-> Cardinality({k \in DOMAIN idx : idx[k].Enabled}),
     disabled |-> Cardinality({k \in DOMAIN idx : ~idx[k].Enabled})]

(***************************************************************************)
(* sync.RWMutex                                                            *)
(***************************************************************************)
Unlocked == [writer |-> FALSE, readers |-> 0]

CanLock(m) == ~m.writer /\ m.readers = 0

\* fault: a reader that does not wait for the writer
CanRLockDuringWrite(m) == TRUE

CanRLock(m) == ~m.writer

(***************************************************************************)
(* The Check handler                                                       *)
(***************************************************************************)
NoHeaders == [h \in {} |-> EmptyString]

ExtractAPIKey(headers) ==
    IF /\ "authorization" \in DOMAIN headers
       /\ HasPrefix(headers["authorization"], Bearer)
    THEN TrimPrefix(headers["authorization"], Bearer)
    ELSE IF "x-api-key" \in DOMAIN headers
         THEN headers["x-api-key"]
         ELSE EmptyString

AllowResponse ==
    [status |-> [code |-> "OK"],
     http   |-> [kind |-> "OkResponse"]]

\* fault: the refusal is sent as 401, without the content type
DenyResponseUnauthorized(message) ==
    [status |-> [code |-> "PermissionDenied", message |-> message],
     http   |-> [kind    |-> "DeniedResponse",
                 status  |-> "Unauthorized",
                 body    |-> message,
                 headers |-> <<>>]]

DenyResponse(message) ==
    [status |-> [code |-> "PermissionDenied", message |-> message],
     http   |-> [kind    |-> "DeniedResponse",
                 status  |-> "Forbidden",
                 body    |-> message,
                 headers |-> <<[key |-> "content-type", value |-> "text/plain"]>>]]

MissingAPIKey == "Missing API key"
InvalidAPIKey == "Invalid or disabled API key"

\* fault: the empty credential is not rejected
NoAPIKeyNever(apiKey) == FALSE

\* Check: if apiKey == ""
NoAPIKey(apiKey) == apiKey = EmptyString

\* fault: fail open
CheckDecisionFailOpen(valid) == AllowResponse

\* fault: a refusal is returned as an error, without a response
CheckDecisionErrorOnDeny(valid) ==
    IF ~valid THEN [error |-> "PermissionDenied"] ELSE AllowResponse

\* Check after ValidateKey has returned valid
CheckDecision(valid) ==
    IF ~valid THEN DenyResponse(InvalidAPIKey) ELSE AllowResponse

\* Check from entry to return against one state of the map
CheckOn(headers, idx) ==
    LET apiKey == ExtractAPIKey(headers)
    IN  IF NoAPIKey(apiKey)
        THEN DenyResponse(MissingAPIKey)
        ELSE CheckDecision(ValidateKey(idx, HashAPIKey(apiKey)))

\* apikey.GenerateHint: the first six and the last two characters around
\* thirteen stars, or the key itself when it is shorter than eight
GenerateHint(apiKey) ==
    IF Len(apiKey) < 8
    THEN apiKey
    ELSE SubSeq(apiKey, 1, 6) \o [i \in 1..13 |-> "*"]
            \o SubSeq(apiKey, Len(apiKey) - 1, Len(apiKey))

\* the line Check logs before it returns, given what ValidateKey answered:
\* the format and its argument, a text or the first twelve characters of a
\* digest
CheckLog(apiKey, valid) ==
    IF NoAPIKey(apiKey)
    THEN [format |-> "Denied: No API key provided", args |-> <<>>]
    ELSE IF ~valid
    THEN [format |-> "Denied: Invalid or disabled API key (hint: %s)",
          args |-> <<[kind |-> "text", chars |-> GenerateHint(apiKey)]>>]
    ELSE [format |-> "Allowed: Valid API key (hash: %s...)",
          args |-> <<[kind |-> "digest", of |-> HashAPIKey(apiKey), first |-> 12]>>]

BearerRequest(v) == "authorization" :> (Bearer \o v)
XAPIKeyRequest(v) == "x-api-key" :> v

CoreRequests ==
    {NoHeaders}
        \cup {BearerRequest(v) : v \in Credentials \cup {EmptyString}}
        \cup {XAPIKeyRequest(v) : v \in Credentials \cup {EmptyString}}

\* authorization values that are not the bearer form of a credential
LowerBearer == <<"b", "e", "a", "r", "e", "r", " ">>
Basic == <<"B", "a", "s", "i", "c", " ">>

AuthorizationValues ==
    {Bearer \o KeyA, Bearer, LowerBearer \o KeyA, Basic \o KeyA}

XAPIKeyValues == Credentials \cup {EmptyString}

\* the field names a client may write; the handler reads the first and the third
HeaderNames == {"authorization", "Authorization", "x-api-key", "X-API-Key"}

ValuesOf(name) ==
    IF name \in {"authorization", "Authorization"}
    THEN AuthorizationValues ELSE XAPIKeyValues

HeaderMaps ==
    UNION {{h \in [S -> AuthorizationValues \cup XAPIKeyValues] :
                \A n \in S : h[n] \in ValuesOf(n)} : S \in SUBSET HeaderNames}

\* a CheckRequest: its attributes are nil or carry the header map
CheckRequests ==
    {[attributes |-> Nil]} \cup {[attributes |-> [headers |-> h]] : h \in HeaderMaps}

\* req.GetAttributes().GetRequest().GetHttp().GetHeaders(): the getters pass
\* nil on, and a nil map reads as an empty one
GetHeaders(req) ==
    IF req.attributes = Nil THEN NoHeaders ELSE req.attributes.headers

\* the header maps Check reads from the requests
RequestHeaders == {GetHeaders(req) : req \in CheckRequests}

NoCall == [op |-> "none"]
NoResult == [kind |-> "none"]

\* the hash the worker's call looks up
CallKey(call) ==
    IF call.op = "Check" THEN HashAPIKey(ExtractAPIKey(call.headers))
    ELSE call.keyHash

(***************************************************************************)
(* History.  A specification records of a run what its properties read:    *)
(* hist has the fields its initial state gives it, and a step sets a field *)
(* only if hist has it.                                                     *)
(*   retried     a stream has ended or a Watch call has failed             *)
(*   outageCall  the call in hand was made after such a failure, while the *)
(*               loop had no subscription                                   *)
(*   seen        what the map has held under the hash of the call in hand, *)
(*               when the call was made and after every write that was     *)
(*               completed since, until the call has its result            *)
(*   wrote       such a write has happened                                  *)
(*   records     the source's records, by name, as the list and the events *)
(*               processed so far assert them                               *)
(*   consistent  the list named every record once and every event so far   *)
(*               fits the records before it                                 *)
(***************************************************************************)
NoHistory == [f \in {} |-> f]

Track(h, f, v) == IF f \in DOMAIN h THEN [h EXCEPT ![f] = v] ELSE h

\* a call enters the worker
TrackCall(h, call) ==
    LET h1 == IF "outageCall" \in DOMAIN h
              THEN [h EXCEPT !.outageCall = h.retried /\ lpc \in {"select", "watch"}]
              ELSE h
    IN  IF "seen" \in DOMAIN h1
        THEN [h1 EXCEPT !.seen = IF call.op \in {"Check", "ValidateKey"}
                                 THEN {Lookup(keyHashes, CallKey(call))}
                                 ELSE {},
                        !.wrote = FALSE]
        ELSE h1

\* the event handler or the resync has written the map idx
TrackWrite(h, idx) ==
    IF /\ "seen" \in DOMAIN h
       /\ wpc \in {"rlock", "read"}
       /\ wcall.op \in {"Check", "ValidateKey"}
    THEN [h EXCEPT !.seen = @ \cup {Lookup(idx, CallKey(wcall))}, !.wrote = TRUE]
    ELSE h

NoRecords == [n \in {} |-> StatusObject]

\* the records a list asserts, and whether it names each once
RECURSIVE ListRecords(_)
ListRecords(items) ==
    IF items = <<>> THEN NoRecords
    ELSE LET last == items[Len(items)]
         IN  (last.name :> last) @@ ListRecords(SubSeq(items, 1, Len(items) - 1))

ListFits(items) ==
    \A i, j \in 1..Len(items) : items[i].name = items[j].name => i = j

\* the records after an event, and whether the event fits the records
\* before it: an added record is new, a modified one exists, a deleted one
\* is handed over in its last state
RecordsAfter(recs, ev) ==
    CASE ev.type \in {"ADDED", "MODIFIED"} -> (ev.object.name :> ev.object) @@ recs
      [] ev.type = "DELETED" ->
            [n \in DOMAIN recs \ {ev.object.name} |-> recs[n]]
      [] OTHER -> recs

EventFits(recs, ev) ==
    CASE ev.type = "ADDED"    -> ev.object.name \notin DOMAIN recs
      [] ev.type = "MODIFIED" -> ev.object.name \in DOMAIN recs
      [] ev.type = "DELETED"  ->
            /\ ev.object.name \in DOMAIN recs
            /\ recs[ev.object.name] = ev.object
      [] OTHER -> TRUE

TrackList(h, items) ==
    IF "records" \in DOMAIN h
    THEN [h EXCEPT !.records = ListRecords(items), !.consistent = ListFits(items)]
    ELSE h

TrackEvent(h, ev) ==
    IF "records" \in DOMAIN h
    THEN [h EXCEPT !.records = RecordsAfter(@, ev),
                   !.consistent = @ /\ EventFits(h.records, ev)]
    ELSE h

(***************************************************************************)
(* The API server.  A specification that follows the source gives it the   *)
(* fields records (the APIKey objects it has, by name) and stream (the     *)
(* events queued for the open watch); the others leave it without fields,  *)
(* and their List and Watch calls return whatever the sets they are given  *)
(* allow.                                                                   *)
(***************************************************************************)
NoSource == [f \in {} |-> f]

Follows(s) == "records" \in DOMAIN s

NameOrder == <<"n1", "n2">>

\* the objects of the source as a List call returns them
RecordList(recs) ==
    LET names == SelectSeq(NameOrder, LAMBDA n : n \in DOMAIN recs)
    IN  [i \in 1..Len(names) |-> recs[names[i]]]

\* the List call returns l
SourceLists(s, l) == Follows(s) => l = RecordList(s.records)

\* a Watch call without a resourceVersion: the watch starts at the current
\* state, and the server first sends an ADDED event for every object it has
Subscribe(s) ==
    IF Follows(s)
    THEN [s EXCEPT !.stream = [i \in 1..Len(RecordList(s.records)) |->
                                [type |-> "ADDED", object |-> RecordList(s.records)[i]]]]
    ELSE s

\* the result channel yields ev
SourceOffers(s, ev) == Follows(s) => (s.stream # <<>> /\ ev = Head(s.stream))

Consume(s) == IF Follows(s) THEN [s EXCEPT !.stream = Tail(@)] ELSE s

\* the watch is over: what was queued for it is dropped
Hangup(s) == IF Follows(s) THEN [s EXCEPT !.stream = <<>>] ELSE s

(***************************************************************************)
(* Initial state: NewAPIKeyStore has returned                              *)
(***************************************************************************)
Init ==
    /\ keyHashes = EmptyIndex
    /\ mu = Unlocked
    /\ stopCh = "open"
    /\ ctxDone = FALSE
    /\ spc = "new"
    /\ list = <<>>
    /\ item = 1
    /\ lpc = "off"
    /\ event = NoEvent
    /\ wpc = "idle"
    /\ wcall = NoCall
    /\ wres = NoResult
    /\ old = EmptyIndex
    /\ replaced = Nil
    /\ hist = NoHistory
    /\ source = NoSource

\* the maps the store holds after changes to well-formed objects
CoreIndexes ==
    LET entries == {ParseAPIKey(o) : o \in CoreObjects}
    IN  {idx \in UNION {[S -> entries] : S \in SUBSET Hashes} :
            \A k \in DOMAIN idx : idx[k].KeyHash = k}

\* Start is called on a store that may already hold entries
InitResync ==
    /\ keyHashes \in CoreIndexes
    /\ mu = Unlocked
    /\ stopCh = "open"
    /\ ctxDone = FALSE
    /\ spc = "new"
    /\ list = <<>>
    /\ item = 1
    /\ lpc = "off"
    /\ event = NoEvent
    /\ wpc = "idle"
    /\ wcall = NoCall
    /\ wres = NoResult
    /\ old = EmptyIndex
    /\ replaced = Nil
    /\ hist = NoHistory
    /\ source = NoSource

(***************************************************************************)
(* Start and syncAPIKeys                                                   *)
(***************************************************************************)
\* fault: the goroutine is started before the initial sync
StartListAfterWatch(objs) ==
    /\ spc = "new"
    /\ ~ctxDone
    /\ \E l \in Lists(objs) : list' = l
    /\ spc' = "sync_lock"
    /\ lpc' = "select"
    /\ UNCHANGED <<storeVars, item, old, event, replaced, workerVars, stopVars, hist, source>>

\* Start calls syncAPIKeys; List returns the items
StartList(objs) ==
    /\ spc = "new"
    /\ ~ctxDone
    /\ \E l \in Lists(objs) : SourceLists(source, l) /\ list' = l
    /\ spc' = "sync_lock"
    /\ UNCHANGED <<storeVars, item, old, loopVars, workerVars, stopVars, hist, source>>

\* List fails: syncAPIKeys and Start return the error
StartListFail ==
    /\ spc = "new"
    /\ spc' = "failed"
    /\ UNCHANGED <<storeVars, list, item, old, loopVars, workerVars, stopVars, hist, source>>

SyncLock ==
    /\ spc = "sync_lock"
    /\ CanLock(mu)
    /\ mu' = [mu EXCEPT !.writer = TRUE]
    /\ spc' = "sync_clear"
    /\ UNCHANGED <<keyHashes, list, item, old, loopVars, workerVars, stopVars, hist, source>>

SyncClear ==
    /\ spc = "sync_clear"
    /\ old' = keyHashes
    /\ keyHashes' = EmptyIndex
    /\ item' = 1
    /\ spc' = "sync_fill"
    /\ UNCHANGED <<mu, list, loopVars, workerVars, stopVars, hist, source>>

SyncItem ==
    /\ spc = "sync_fill"
    /\ item <= Len(list)
    /\ keyHashes' = SyncStep(keyHashes, list[item])
    /\ item' = item + 1
    /\ UNCHANGED <<mu, spc, list, old, loopVars, workerVars, stopVars, hist, source>>

\* the range loop is over: the deferred Unlock runs and syncAPIKeys returns nil
SyncReturn ==
    /\ spc = "sync_fill"
    /\ item > Len(list)
    /\ mu' = [mu EXCEPT !.writer = FALSE]
    /\ spc' = "synced"
    /\ hist' = TrackWrite(TrackList(hist, list), keyHashes)
    /\ UNCHANGED <<keyHashes, list, item, old, loopVars, workerVars, stopVars, source>>

\* fault: the goroutine is started whatever syncAPIKeys returned
StartWatchAfterFailure ==
    /\ spc \in {"synced", "failed"}
    /\ spc' = "started"
    /\ lpc' = "select"
    /\ list' = <<>>
    /\ item' = 1
    /\ old' = EmptyIndex
    /\ UNCHANGED <<storeVars, event, replaced, workerVars, stopVars, hist, source>>

\* go s.watchAPIKeys(ctx); return nil
StartWatch ==
    /\ spc = "synced"
    /\ spc' = "started"
    /\ lpc' = "select"
    /\ list' = <<>>
    /\ item' = 1
    /\ old' = EmptyIndex
    /\ UNCHANGED <<storeVars, event, replaced, workerVars, stopVars, hist, source>>

(***************************************************************************)
(* watchAPIKeys and handleWatchEvent                                       *)
(***************************************************************************)
LoopSelectStop ==
    /\ lpc = "select"
    /\ stopCh = "closed" \/ ctxDone
    /\ lpc' = "returned"
    /\ UNCHANGED <<storeVars, syncVars, event, replaced, workerVars, stopVars, hist, source>>

\* fault: the select does not look at the stop signals
LoopSelectDefaultUnchecked ==
    /\ lpc = "select"
    /\ lpc' = "watch"
    /\ UNCHANGED <<storeVars, syncVars, event, replaced, workerVars, stopVars, hist, source>>

\* neither channel is ready: the default case
LoopSelectDefault ==
    /\ lpc = "select"
    /\ stopCh = "open"
    /\ ~ctxDone
    /\ lpc' = "watch"
    /\ UNCHANGED <<storeVars, syncVars, event, replaced, workerVars, stopVars, hist, source>>

LoopWatchOk ==
    /\ lpc = "watch"
    /\ ~ctxDone
    /\ lpc' = "recv"
    /\ source' = Subscribe(source)
    /\ UNCHANGED <<storeVars, syncVars, event, replaced, workerVars, stopVars, hist>>

\* fault: a failed Watch call ends the loop
LoopWatchErrGivesUp ==
    /\ lpc = "watch"
    /\ lpc' = "returned"
    /\ hist' = Track(hist, "retried", TRUE)
    /\ UNCHANGED <<storeVars, syncVars, event, replaced, workerVars, stopVars, source>>

\* Watch fails: log and continue
LoopWatchErr ==
    /\ lpc = "watch"
    /\ lpc' = "select"
    /\ hist' = Track(hist, "retried", TRUE)
    /\ UNCHANGED <<storeVars, syncVars, event, replaced, workerVars, stopVars, source>>

\* the result channel yields the next event
LoopRecv(evs) ==
    /\ lpc = "recv"
    /\ \E ev \in evs : SourceOffers(source, ev) /\ event' = ev
    /\ lpc' = "handle"
    /\ source' = Consume(source)
    /\ UNCHANGED <<storeVars, syncVars, replaced, workerVars, stopVars, hist>>

\* fault: the end of the stream ends the loop
LoopStreamEndReturns ==
    /\ lpc = "recv"
    /\ lpc' = "returned"
    /\ hist' = Track(hist, "retried", TRUE)
    /\ UNCHANGED <<storeVars, syncVars, event, replaced, workerVars, stopVars, source>>

\* fault: the end of the stream empties the map
LoopStreamEndClears ==
    /\ lpc = "recv"
    /\ lpc' = "select"
    /\ keyHashes' = EmptyIndex
    /\ hist' = Track(hist, "retried", TRUE)
    /\ UNCHANGED <<mu, syncVars, event, replaced, workerVars, stopVars, source>>

\* the result channel is closed: watcher.Stop() and the next iteration
LoopStreamEnd ==
    /\ lpc = "recv"
    /\ lpc' = "select"
    /\ hist' = Track(hist, "retried", TRUE)
    /\ source' = Hangup(source)
    /\ UNCHANGED <<storeVars, syncVars, event, replaced, workerVars, stopVars>>

\* handleWatchEvent returns early: not an Unstructured, or no entry
LoopHandleDiscard ==
    /\ lpc = "handle"
    /\ HandleEntry(event) = Nil
    /\ event' = NoEvent
    /\ lpc' = "recv"
    /\ hist' = TrackEvent(hist, event)
    /\ UNCHANGED <<storeVars, syncVars, replaced, workerVars, stopVars, source>>

LoopHandleLock ==
    /\ lpc = "handle"
    /\ HandleEntry(event) # Nil
    /\ CanLock(mu)
    /\ mu' = [mu EXCEPT !.writer = TRUE]
    /\ lpc' = "write"
    /\ UNCHANGED <<keyHashes, syncVars, event, replaced, workerVars, stopVars, hist, source>>

LoopWrite ==
    /\ lpc = "write"
    /\ replaced' = Lookup(keyHashes, HandleEntry(event).KeyHash)
    /\ keyHashes' = HandleSwitch(keyHashes, event.type, HandleEntry(event))
    /\ lpc' = "unlock"
    /\ hist' = TrackWrite(TrackEvent(hist, event), keyHashes')
    /\ UNCHANGED <<mu, syncVars, event, workerVars, stopVars, source>>

\* fault: handleWatchEvent returns with the lock held
LoopUnlockKeepsLock ==
    /\ lpc = "unlock"
    /\ event' = NoEvent
    /\ replaced' = Nil
    /\ lpc' = "recv"
    /\ UNCHANGED <<storeVars, syncVars, workerVars, stopVars, hist, source>>

\* the deferred Unlock; handleWatchEvent returns to the range loop
LoopUnlock ==
    /\ lpc = "unlock"
    /\ mu' = [mu EXCEPT !.writer = FALSE]
    /\ event' = NoEvent
    /\ replaced' = Nil
    /\ lpc' = "recv"
    /\ UNCHANGED <<keyHashes, syncVars, workerVars, stopVars, hist, source>>

(***************************************************************************)
(* Stop and the context                                                    *)
(***************************************************************************)
Stop ==
    /\ stopCh = "open"
    /\ stopCh' = "closed"
    /\ UNCHANGED <<storeVars, syncVars, loopVars, workerVars, ctxDone, hist, source>>

\* Stop is called again: close of a closed channel is a run-time panic, and
\* nothing recovers it, so the process and every goroutine of it are gone
StopClosed ==
    /\ stopCh = "closed"
    /\ stopCh' = "panic"
    /\ spc' = "crashed"
    /\ lpc' = "crashed"
    /\ wpc' = "crashed"
    /\ UNCHANGED <<storeVars, list, item, old, event, replaced, wcall, wres, ctxDone, hist, source>>

\* Run's deferred cancel()
CancelCtx ==
    /\ ~ctxDone
    /\ ctxDone' = TRUE
    /\ UNCHANGED <<storeVars, syncVars, loopVars, workerVars, stopCh, hist, source>>

(***************************************************************************)
(* Changes at the API server.  An open watch is sent the event; without    *)
(* one nothing is kept for the store.                                       *)
(***************************************************************************)
WatchOpen == lpc \in {"recv", "handle", "write", "unlock"}

Notify(stream, ev) == IF WatchOpen THEN Append(stream, ev) ELSE stream

\* an APIKey object is deleted
SourceDelete ==
    /\ Follows(source)
    /\ \E n \in DOMAIN source.records :
        source' = [records |-> [m \in DOMAIN source.records \ {n} |-> source.records[m]],
                   stream  |-> Notify(source.stream,
                                      [type |-> "DELETED", object |-> source.records[n]])]
    /\ UNCHANGED <<storeVars, syncVars, loopVars, workerVars, stopVars, hist>>

\* spec.enabled of an APIKey object is set to false
SourceDisable ==
    /\ Follows(source)
    /\ \E n \in DOMAIN source.records :
        /\ source.records[n].spec.enabled
        /\ LET obj == [source.records[n] EXCEPT !.spec.enabled = FALSE]
           IN  source' = [records |-> [source.records EXCEPT ![n] = obj],
                          stream  |-> Notify(source.stream,
                                             [type |-> "MODIFIED", object |-> obj])]
    /\ UNCHANGED <<storeVars, syncVars, loopVars, workerVars, stopVars, hist>>

\* the server reports an error on the open watch, once at a time
SourceError ==
    /\ Follows(source)
    /\ WatchOpen
    /\ \A i \in 1..Len(source.stream) : source.stream[i].type # "ERROR"
    /\ source' = [source EXCEPT
                    !.stream = Append(@, [type |-> "ERROR", object |-> StatusObject])]
    /\ UNCHANGED <<storeVars, syncVars, loopVars, workerVars, stopVars, hist>>

(***************************************************************************)
(* Server.Run around Start                                                 *)
(***************************************************************************)
\* Start has returned nil: Run starts the gRPC and the HTTP server
RunServe ==
    /\ spc = "started"
    /\ spc' = "serving"
    /\ UNCHANGED <<storeVars, list, item, old, loopVars, workerVars, stopVars, hist, source>>

\* Start has returned the error: Run returns it, and its deferred cancel runs
RunFail ==
    /\ spc = "failed"
    /\ spc' = "exited"
    /\ ctxDone' = TRUE
    /\ UNCHANGED <<storeVars, list, item, old, loopVars, workerVars, stopCh, hist, source>>

(***************************************************************************)
(* The request worker                                                      *)
(***************************************************************************)
WorkerFree == wpc \in {"idle", "done"}

\* Check: no credential in the request
WCheckMissing(reqs) ==
    /\ WorkerFree
    /\ \E headers \in reqs :
        /\ NoAPIKey(ExtractAPIKey(headers))
        /\ wcall' = [op |-> "Check", headers |-> headers]
    /\ wres' = DenyResponse(MissingAPIKey)
    /\ wpc' = "done"
    /\ hist' = TrackCall(hist, wcall')
    /\ UNCHANGED <<storeVars, syncVars, loopVars, stopVars, source>>

\* Check: the credential is hashed and ValidateKey is entered
WCheckCall(reqs) ==
    /\ WorkerFree
    /\ \E headers \in reqs :
        /\ ~NoAPIKey(ExtractAPIKey(headers))
        /\ wcall' = [op |-> "Check", headers |-> headers]
    /\ wres' = NoResult
    /\ wpc' = "rlock"
    /\ hist' = TrackCall(hist, wcall')
    /\ UNCHANGED <<storeVars, syncVars, loopVars, stopVars, source>>

\* ValidateKey called on the store directly
WValidateCall ==
    /\ WorkerFree
    /\ \E h \in Hashes \cup {""} : wcall' = [op |-> "ValidateKey", keyHash |-> h]
    /\ wres' = NoResult
    /\ wpc' = "rlock"
    /\ hist' = TrackCall(hist, wcall')
    /\ UNCHANGED <<storeVars, syncVars, loopVars, stopVars, source>>

WStatsCall ==
    /\ WorkerFree
    /\ wcall' = [op |-> "GetStats"]
    /\ wres' = NoResult
    /\ wpc' = "rlock"
    /\ hist' = TrackCall(hist, wcall')
    /\ UNCHANGED <<storeVars, syncVars, loopVars, stopVars, source>>

WRLock ==
    /\ wpc = "rlock"
    /\ CanRLock(mu)
    /\ mu' = [mu EXCEPT !.readers = @ + 1]
    /\ wpc' = "read"
    /\ UNCHANGED <<keyHashes, syncVars, loopVars, wcall, wres, stopVars, hist, source>>

\* fault: the lookup reads the map as it was before the last resync
WLookupStale ==
    /\ wpc = "read"
    /\ wcall.op \in {"Check", "ValidateKey"}
    /\ wres' = [valid |-> ValidateKey(old, CallKey(wcall))]
    /\ wpc' = "unlock"
    /\ UNCHANGED <<storeVars, syncVars, loopVars, wcall, stopVars, hist, source>>

\* ValidateKey: the map lookup
WLookup ==
    /\ wpc = "read"
    /\ wcall.op \in {"Check", "ValidateKey"}
    /\ wres' = [valid |-> ValidateKey(keyHashes, CallKey(wcall))]
    /\ wpc' = "unlock"
    /\ UNCHANGED <<storeVars, syncVars, loopVars, wcall, stopVars, hist, source>>

\* GetStats: the counting loop
WScan ==
    /\ wpc = "read"
    /\ wcall.op = "GetStats"
    /\ wres' = CountStats(keyHashes)
    /\ wpc' = "len"
    /\ UNCHANGED <<storeVars, syncVars, loopVars, wcall, stopVars, hist, source>>

\* GetStats: the returned map, with len(s.keyHashes)
WLen ==
    /\ wpc = "len"
    /\ wres' = [total    |-> Cardinality(DOMAIN keyHashes),
                enabled  |-> wres.enabled,
                disabled |-> wres.disabled]
    /\ wpc' = "unlock"
    /\ UNCHANGED <<storeVars, syncVars, loopVars, wcall, stopVars, hist, source>>

\* the deferred RUnlock; Check turns ValidateKey's result into its response
WRUnlock ==
    /\ wpc = "unlock"
    /\ mu' = [mu EXCEPT !.readers = @ - 1]
    /\ wres' = IF wcall.op = "Check" THEN CheckDecision(wres.valid) ELSE wres
    /\ wpc' = "done"
    /\ UNCHANGED <<keyHashes, syncVars, loopVars, wcall, stopVars, hist, source>>

(***************************************************************************)
(* Specifications                                                          *)
(***************************************************************************)
Sync ==
    \/ StartListFail
    \/ SyncLock
    \/ SyncClear
    \/ SyncItem
    \/ SyncReturn
    \/ StartWatch

Loop(evs) ==
    \/ LoopSelectStop
    \/ LoopSelectDefault
    \/ LoopWatchOk
    \/ LoopWatchErr
    \/ LoopRecv(evs)
    \/ LoopStreamEnd
    \/ LoopHandleDiscard
    \/ LoopHandleLock
    \/ LoopWrite
    \/ LoopUnlock

Worker(reqs) ==
    \/ WCheckMissing(reqs)
    \/ WCheckCall(reqs)
    \/ WValidateCall
    \/ WStatsCall
    \/ WRLock
    \/ WLookup
    \/ WScan
    \/ WLen
    \/ WRUnlock

\* the store, the watch loop and a request worker, over well-formed objects
Next ==
    \/ StartList(CoreObjects)
    \/ Sync
    \/ Loop(Events(CoreObjects))
    \/ Stop
    \/ CancelCtx
    \/ Worker(CoreRequests)

Spec == Init /\ [][Next]_vars

\* the replication path alone, over every object the source can hold
NextReplication ==
    \/ StartList(Objects)
    \/ Sync
    \/ Loop(Events(Objects))
    \/ Stop
    \/ CancelCtx

SpecReplication == Init /\ [][NextReplication]_vars

\* syncAPIKeys against concurrent readers, from any map the store can hold
NextResync ==
    \/ StartList(CoreObjects)
    \/ Sync
    \/ Worker(CoreRequests)

SpecResync == InitResync /\ [][NextResync]_vars

\* Run, Start and the watch loop from start to stop
InitLifecycle ==
    /\ keyHashes = EmptyIndex
    /\ mu = Unlocked
    /\ stopCh = "open"
    /\ ctxDone = FALSE
    /\ spc = "new"
    /\ list = <<>>
    /\ item = 1
    /\ lpc = "off"
    /\ event = NoEvent
    /\ wpc = "idle"
    /\ wcall = NoCall
    /\ wres = NoResult
    /\ old = EmptyIndex
    /\ replaced = Nil
    /\ hist = [retried |-> FALSE]
    /\ source = NoSource

NextLifecycle ==
    \/ StartList(CoreObjects)
    \/ Sync
    \/ Loop(Events(CoreObjects))
    \/ Stop
    \/ CancelCtx
    \/ RunServe
    \/ RunFail

SpecLifecycle == InitLifecycle /\ [][NextLifecycle]_vars

\* the steps of the watch goroutine that wait for nothing but the scheduler
LoopRuns ==
    \/ LoopSelectStop
    \/ LoopSelectDefault
    \/ LoopHandleDiscard
    \/ LoopHandleLock
    \/ LoopWrite
    \/ LoopUnlock

\* the Watch call returns, with a watcher or with an error
WatchReturns ==
    \/ LoopWatchOk
    \/ LoopWatchErr

\* the subscription is bound to the context: cancelling it ends the stream
StreamEndsOnCancel == ctxDone /\ LoopStreamEnd

\* a runnable goroutine is eventually run, a call to the API server
\* eventually returns, and a stream whose context is cancelled ends; nothing
\* else makes a stream deliver or end
FairLifecycle ==
    /\ SpecLifecycle
    /\ WF_vars(LoopRuns)
    /\ WF_vars(WatchReturns)
    /\ SF_vars(StreamEndsOnCancel)

\* the map against the records of the source, as listed and as the events
\* processed so far report them
InitSource ==
    /\ keyHashes = EmptyIndex
    /\ mu = Unlocked
    /\ stopCh = "open"
    /\ ctxDone = FALSE
    /\ spc = "new"
    /\ list = <<>>
    /\ item = 1
    /\ lpc = "off"
    /\ event = NoEvent
    /\ wpc = "idle"
    /\ wcall = NoCall
    /\ wres = NoResult
    /\ old = EmptyIndex
    /\ replaced = Nil
    /\ hist = [records |-> NoRecords, consistent |-> TRUE]
    /\ source = NoSource

NextSource ==
    \/ StartList(CoreObjects)
    \/ Sync
    \/ Loop(Events(CoreObjects))
    \/ Stop
    \/ CancelCtx

SpecSource == InitSource /\ [][NextSource]_vars

\* requests against a store whose subscriptions fail, over one record
InitOutage ==
    /\ keyHashes = EmptyIndex
    /\ mu = Unlocked
    /\ stopCh = "open"
    /\ ctxDone = FALSE
    /\ spc = "new"
    /\ list = <<>>
    /\ item = 1
    /\ lpc = "off"
    /\ event = NoEvent
    /\ wpc = "idle"
    /\ wcall = NoCall
    /\ wres = NoResult
    /\ old = EmptyIndex
    /\ replaced = Nil
    /\ hist = [retried |-> FALSE, outageCall |-> FALSE]
    /\ source = NoSource

OneRecord == {o \in CoreObjects : o.name = "n1"}

NextOutage ==
    \/ StartList(OneRecord)
    \/ Sync
    \/ Loop(Events(OneRecord))
    \/ Stop
    \/ CancelCtx
    \/ Worker(CoreRequests)

SpecOutage == InitOutage /\ [][NextOutage]_vars

\* one reader against the resync and the event handler, over one record
NextLocking ==
    \/ StartList(OneRecord)
    \/ Sync
    \/ Loop(Events(OneRecord))
    \/ Stop
    \/ Worker({XAPIKeyRequest(KeyA), NoHeaders})

SpecLocking == Init /\ [][NextLocking]_vars

\* the steps of syncAPIKeys and Start after the List call has returned
SyncRuns ==
    \/ SyncLock
    \/ SyncClear
    \/ SyncItem
    \/ SyncReturn
    \/ StartWatch

\* a runnable goroutine is eventually run, and a reader blocked in RLock is
\* let in when the writer unlocks, before the next writer: sync.RWMutex
\* does not starve readers.  Nothing makes the source answer or deliver.
FairLocking ==
    /\ SpecLocking
    /\ WF_vars(SyncRuns)
    /\ WF_vars(LoopRuns)
    /\ SF_vars(WRLock)

\* what a call can see of the writes made around it, over one record
InitVisibility ==
    /\ keyHashes = EmptyIndex
    /\ mu = Unlocked
    /\ stopCh = "open"
    /\ ctxDone = FALSE
    /\ spc = "new"
    /\ list = <<>>
    /\ item = 1
    /\ lpc = "off"
    /\ event = NoEvent
    /\ wpc = "idle"
    /\ wcall = NoCall
    /\ wres = NoResult
    /\ old = EmptyIndex
    /\ replaced = Nil
    /\ hist = [seen |-> {}, wrote |-> FALSE]
    /\ source = NoSource

SpecVisibility == InitVisibility /\ [][NextLocking]_vars

\* the store against an API server whose objects are deleted and disabled
SourceRecords ==
    UNION {{r \in [S -> CoreObjects] : \A n \in S : r[n].name = n} : S \in SUBSET Names}

InitReconnect ==
    /\ keyHashes = EmptyIndex
    /\ mu = Unlocked
    /\ stopCh = "open"
    /\ ctxDone = FALSE
    /\ spc = "new"
    /\ list = <<>>
    /\ item = 1
    /\ lpc = "off"
    /\ event = NoEvent
    /\ wpc = "idle"
    /\ wcall = NoCall
    /\ wres = NoResult
    /\ old = EmptyIndex
    /\ replaced = Nil
    /\ hist = NoHistory
    /\ source \in {[records |-> r, stream |-> <<>>] : r \in SourceRecords}

NextReconnect ==
    \/ StartList(CoreObjects)
    \/ Sync
    \/ Loop(Events(CoreObjects))
    \/ Stop
    \/ CancelCtx
    \/ SourceDelete
    \/ SourceDisable
    \/ SourceError

SpecReconnect == InitReconnect /\ [][NextReconnect]_vars

\* the channel has an event for the range loop
StreamDelivers == LoopRecv(Events(CoreObjects))

\* a runnable goroutine is eventually run, a call to the API server
\* eventually returns, and a queued event is delivered unless the stream
\* ends first; nothing makes the source change or a stream end
FairReconnect ==
    /\ SpecReconnect
    /\ WF_vars(SyncRuns)
    /\ WF_vars(LoopRuns)
    /\ WF_vars(WatchReturns)
    /\ WF_vars(StreamDelivers)

\* Stop called by anyone, any number of times, around the running store
NextStop ==
    \/ StartList(OneRecord)
    \/ Sync
    \/ Loop(Events(OneRecord))
    \/ Stop
    \/ StopClosed
    \/ CancelCtx

SpecStop == Init /\ [][NextStop]_vars

\* the Check handler on every request, against every map the store can hold
NextCheck == Worker(RequestHeaders)

SpecCheck == InitResync /\ [][NextCheck]_vars

(***************************************************************************)
(* Properties                                                              *)
(***************************************************************************)
\* the event in hand, as handleWatchEvent parsed it
EventEntry == HandleEntry(event)

\* the event in hand carries keyHash h in its spec
EventCarries(h) ==
    /\ event # NoEvent
    /\ "spec" \in DOMAIN event.object
    /\ "keyHash" \in DOMAIN event.object.spec
    /\ event.object.spec.keyHash = h

\* the step that applies the event in hand to the map
Applying == lpc = "write" /\ lpc' = "unlock"

\* the hash is an enabled entry of the map
EnabledEntry(idx, h) == h \in DOMAIN idx /\ idx[h].Enabled

\* C1: whenever ValidateKey has looked its hash up (and still holds the read
\* lock), its result is true iff the map has an entry under that hash and
\* that entry is enabled; it is false for an absent hash and for a disabled
\* entry.
C1_ValidateKeyIffEnabledEntry ==
    (wpc = "unlock" /\ wcall.op \in {"Check", "ValidateKey"}) =>
        (wres.valid <=> (/\ CallKey(wcall) \in DOMAIN keyHashes
                         /\ keyHashes[CallKey(wcall)].Enabled))

C1_Witness ==
    /\ wpc = "unlock"
    /\ wcall.op = "ValidateKey"
    /\ wcall.keyHash \in DOMAIN keyHashes
    /\ ~keyHashes[wcall.keyHash].Enabled
    /\ wres.valid = FALSE

\* C2: a Check that presents a non-empty credential returns ALLOW iff the
\* hash of the credential is an enabled entry of the map at the lookup (the
\* read lock is still held when the result is handed back), and otherwise
\* DENY with "Invalid or disabled API key".
C2_CheckAllowsIffEnabledEntry ==
    [][(wpc = "unlock" /\ wcall.op = "Check" /\ wpc' = "done") =>
        wres' = IF EnabledEntry(keyHashes, HashAPIKey(ExtractAPIKey(wcall.headers)))
                THEN AllowResponse
                ELSE DenyResponse("Invalid or disabled API key")]_vars

\* a credential whose entry is disabled has been denied
C2_Witness ==
    /\ wpc = "done"
    /\ wcall.op = "Check"
    /\ wcall.headers = BearerRequest(KeyA)
    /\ wres = DenyResponse("Invalid or disabled API key")
    /\ HashAPIKey(KeyA) \in DOMAIN keyHashes
    /\ ~keyHashes[HashAPIKey(KeyA)].Enabled

\* C3: a Check whose request has neither an authorization nor an x-api-key
\* field is answered DENY("Missing API key"), and that call is never inside
\* ValidateKey: it never waits for or holds the read lock.
C3_MissingKeyDeniedWithoutLookup ==
    (/\ wcall.op = "Check"
     /\ "authorization" \notin DOMAIN wcall.headers
     /\ "x-api-key" \notin DOMAIN wcall.headers) =>
        /\ wpc = "done"
        /\ wres = DenyResponse("Missing API key")

C3_Witness ==
    /\ wcall = [op |-> "Check", headers |-> NoHeaders]
    /\ wpc = "done"
    /\ wres = DenyResponse("Missing API key")
    /\ keyHashes # EmptyIndex

\* C4: the map never has an entry under the empty hash, whatever the list
\* and the events were (records without keyHash included).
C4_NoEntryUnderEmptyHash == "" \notin DOMAIN keyHashes

\* the observations a reader can make of a map
InSync == spc \in {"sync_lock", "sync_clear", "sync_fill", "synced"}
MapBefore == IF spc \in {"sync_lock", "sync_clear"} THEN keyHashes ELSE old
MapAfter == SyncResult(list)

StatsOf(idx) ==
    [total    |-> Cardinality(DOMAIN idx),
     enabled  |-> CountStats(idx).enabled,
     disabled |-> CountStats(idx).disabled]

\* C5: while syncAPIKeys runs, everything a reader has read (the result of
\* ValidateKey, the decision of Check, the counts and the statistics of
\* GetStats) is what the complete map from before the resync or the
\* complete map after it gives, never what an emptied or half-filled map
\* gives.
C5_ResyncAtomicForReaders ==
    InSync =>
        /\ (wcall.op \in {"Check", "ValidateKey"} /\ wpc = "unlock") =>
                wres.valid \in {ValidateKey(MapBefore, CallKey(wcall)),
                                ValidateKey(MapAfter, CallKey(wcall))}
        /\ (wcall.op = "ValidateKey" /\ wpc = "done") =>
                wres.valid \in {ValidateKey(MapBefore, CallKey(wcall)),
                                ValidateKey(MapAfter, CallKey(wcall))}
        /\ (wcall.op = "Check" /\ wpc = "done") =>
                wres \in {CheckOn(wcall.headers, MapBefore),
                          CheckOn(wcall.headers, MapAfter)}
        /\ (wcall.op = "GetStats" /\ wpc = "len") =>
                wres \in {CountStats(MapBefore), CountStats(MapAfter)}
        /\ (wcall.op = "GetStats" /\ wpc \in {"unlock", "done"}) =>
                wres \in {StatsOf(MapBefore), StatsOf(MapAfter)}

\* a reader holds the read lock on a non-empty map that the resync, waiting
\* for the write lock, is about to replace by a different one
C5_Witness ==
    /\ spc = "sync_lock"
    /\ wpc = "unlock"
    /\ wcall.op = "ValidateKey"
    /\ keyHashes # EmptyIndex
    /\ wres.valid # ValidateKey(MapAfter, CallKey(wcall))

\* the keyHash values of the listed records
ListedHashes ==
    {list[i].spec.keyHash :
        i \in {j \in 1..Len(list) : /\ "spec" \in DOMAIN list[j]
                                    /\ "keyHash" \in DOMAIN list[j].spec}}

\* C6: when syncAPIKeys has returned, the keys of the map are the keyHash
\* values of the listed records and each key maps to a listed record with
\* that hash.
C6_ResyncExactlyListed ==
    spc = "synced" =>
        /\ DOMAIN keyHashes = ListedHashes
        /\ \A h \in DOMAIN keyHashes :
            \E i \in 1..Len(list) :
                /\ "spec" \in DOMAIN list[i]
                /\ "keyHash" \in DOMAIN list[i].spec
                /\ list[i].spec.keyHash = h
                /\ keyHashes[h] = ParseAPIKey(list[i])

\* C7: for every hash h, once the watch loop runs: applying an added or
\* modified event with keyHash h and enabled true makes ValidateKey(h) true;
\* applying a deleted event for h, or any event for h with enabled false,
\* makes it false; and it turns from true to false in no other step.
C7_ValidAfterEnableUntilDeleteOrDisable ==
    [][\A h \in Hashes :
        /\ (/\ Applying
            /\ EventCarries(h)
            /\ event.type \in {"ADDED", "MODIFIED"}
            /\ EventEntry.Enabled) => ValidateKey(keyHashes', h)
        /\ (/\ Applying
            /\ EventCarries(h)
            /\ (event.type = "DELETED" \/ ~EventEntry.Enabled))
                => ~ValidateKey(keyHashes', h)
        /\ (/\ lpc # "off"
            /\ ValidateKey(keyHashes, h)
            /\ ~ValidateKey(keyHashes', h)) =>
                /\ Applying
                /\ EventCarries(h)
                /\ (event.type = "DELETED" \/ ~EventEntry.Enabled)]_vars

\* an enabled entry has just been disabled by a modified event
C7_Witness ==
    /\ lpc = "unlock"
    /\ event.type = "MODIFIED"
    /\ \E h \in Hashes :
        /\ EventCarries(h)
        /\ replaced # Nil
        /\ replaced.Enabled
        /\ ~EventEntry.Enabled
        /\ ~ValidateKey(keyHashes, h)

\* C8: the watch loop changes the map only in the step that applies the one
\* event it holds, the event it received last, and after an added or
\* modified event has been applied the entry under its hash carries that
\* event's enabled and description values, whatever an earlier event left
\* there.
C8_EventsAppliedInOrder ==
    [][/\ (lpc # "off" /\ keyHashes' # keyHashes) =>
            (Applying /\ event' = event)
       /\ (Applying /\ event.type \in {"ADDED", "MODIFIED"}) =>
            /\ EventEntry.KeyHash \in DOMAIN keyHashes'
            /\ keyHashes'[EventEntry.KeyHash].Enabled = EventEntry.Enabled
            /\ keyHashes'[EventEntry.KeyHash].Description = EventEntry.Description]_vars

\* a modified event B has replaced an entry with another enabled flag and
\* another description
C8_Witness ==
    /\ lpc = "unlock"
    /\ event.type = "MODIFIED"
    /\ \E h \in Hashes : EventCarries(h)
    /\ replaced # Nil
    /\ replaced.Enabled # EventEntry.Enabled
    /\ replaced.Description # EventEntry.Description
    /\ keyHashes[EventEntry.KeyHash] = EventEntry

\* C9: applying a deleted event leaves the map without the event's hash,
\* also when an added event had put it there, and when the hash was not in
\* the map the whole map is unchanged.
C9_DeleteRemovesOrNoOp ==
    [][(Applying /\ event.type = "DELETED") =>
        /\ EventEntry.KeyHash \notin DOMAIN keyHashes'
        /\ EventEntry.KeyHash \notin DOMAIN keyHashes => keyHashes' = keyHashes]_vars

\* a deleted event has removed an entry that was in the map, and other
\* entries are still there
C9_Witness ==
    /\ lpc = "unlock"
    /\ event.type = "DELETED"
    /\ \E h \in Hashes : EventCarries(h)
    /\ replaced # Nil
    /\ EventEntry.KeyHash \notin DOMAIN keyHashes
    /\ keyHashes # EmptyIndex

\* C10: a Check with only authorization = "Bearer " + v and a Check with
\* only x-api-key = v are decided alike: the decision the one gets is the
\* decision Check gives the other on the map the lookup read.
C10_BearerAndXAPIKeyAlike ==
    \A v \in Credentials \cup {EmptyString} :
        \A pair \in {<<BearerRequest(v), XAPIKeyRequest(v)>>,
                     <<XAPIKeyRequest(v), BearerRequest(v)>>} :
            (wcall.op = "Check" /\ wcall.headers = pair[1]) =>
                /\ wpc = "unlock" =>
                    CheckDecision(wres.valid) = CheckOn(pair[2], keyHashes)
                /\ (wpc = "done" /\ ExtractAPIKey(pair[1]) = EmptyString) =>
                    wres = CheckOn(pair[2], keyHashes)

\* the bearer form of an enabled credential has been looked up and found valid
C10_Witness ==
    /\ wpc = "unlock"
    /\ wcall.op = "Check"
    /\ wcall.headers = BearerRequest(KeyA)
    /\ wres.valid

\* the credential the request presents: the bearer value if there is one,
\* otherwise the x-api-key value, otherwise none
PresentedCredential(headers) ==
    IF /\ "authorization" \in DOMAIN headers
       /\ HasPrefix(headers["authorization"], Bearer)
       /\ Len(headers["authorization"]) > Len(Bearer)
    THEN SubSeq(headers["authorization"], Len(Bearer) + 1,
                Len(headers["authorization"]))
    ELSE IF "x-api-key" \in DOMAIN headers
         THEN headers["x-api-key"]
         ELSE EmptyString

\* the decision for a credential against a map
DecisionFor(credential, idx) ==
    IF credential = EmptyString THEN DenyResponse("Missing API key")
    ELSE IF EnabledEntry(idx, HashAPIKey(credential)) THEN AllowResponse
    ELSE DenyResponse("Invalid or disabled API key")

\* C11: Check decides on the bearer value when authorization starts with
\* "Bearer " and something follows, also when x-api-key is present; in every
\* other case (no authorization, another scheme, nothing after the prefix)
\* it decides on the x-api-key value if that field is present; it answers
\* DENY("Missing API key") only when neither field supplies a credential.
\* (Requests with the field names as the handler reads them.)
C11_BearerElseXAPIKey ==
    (/\ wcall.op = "Check"
     /\ wpc = "done"
     /\ DOMAIN wcall.headers \subseteq {"authorization", "x-api-key"}) =>
        wres = DecisionFor(PresentedCredential(wcall.headers), keyHashes)

LowerName(name) ==
    CASE name = "Authorization" -> "authorization"
      [] name = "X-API-Key"     -> "x-api-key"
      [] OTHER                  -> name

FieldsUpToCase(headers) == {<<LowerName(n), headers[n]>> : n \in DOMAIN headers}

\* two requests that differ at most in the letter case of their field names
SameUpToCase(h1, h2) ==
    /\ FieldsUpToCase(h1) = FieldsUpToCase(h2)
    /\ Cardinality(DOMAIN h1) = Cardinality(FieldsUpToCase(h1))
    /\ Cardinality(DOMAIN h2) = Cardinality(FieldsUpToCase(h2))

\* C12: the decision of a Check is the decision Check gives every request
\* that differs from it only in the letter case of the field names, on the
\* same map.
C12_FieldNamesCaseInsensitive ==
    (wcall.op = "Check" /\ wpc = "done") =>
        \A h2 \in HeaderMaps :
            SameUpToCase(wcall.headers, h2) => wres = CheckOn(h2, keyHashes)

\* C13: the watch loop runs iff the initial resync succeeded.  After a
\* failed list call Start has returned the error, Run returns it without
\* starting the servers, the loop is never started and the map stays as
\* constructed; the loop is started only by a Start whose syncAPIKeys has
\* returned, with the lock released and the map holding exactly what the
\* list gave, so the first subscription is opened after that.
C13_WatchIffInitialSyncSucceeded ==
    /\ [](/\ spc \in {"failed", "exited"} => (lpc = "off" /\ keyHashes = EmptyIndex)
          /\ lpc # "off" <=> spc \in {"started", "serving"})
    /\ [][/\ spc \in {"failed", "exited"} => spc' \in {"failed", "exited"}
          /\ (lpc = "off" /\ lpc' # "off") =>
                /\ spc = "synced"
                /\ mu = Unlocked
                /\ keyHashes = SyncResult(list)
                /\ lpc' = "select"
                /\ keyHashes' = keyHashes
          /\ lpc' = "recv" => lpc \in {"watch", "recv", "handle", "unlock"}]_vars

\* the servers run and the loop is about to open its first subscription, on
\* a map the list has filled
C13_Witness ==
    /\ spc = "serving"
    /\ lpc = "watch"
    /\ ~hist.retried
    /\ Cardinality(DOMAIN keyHashes) = 2

\* a stop signal has been issued
StopSignalled == stopCh = "closed" \/ ctxDone

\* C14: a failed Watch call and the end of a stream take the loop back to
\* its top and nowhere else; from the top, while no stop signal has been
\* issued, the loop's only step is the next Watch call (no exit, no wait),
\* and it takes it: after every failure or termination the loop is again
\* at a Watch call unless a stop signal is issued, however many attempts
\* came before.
C14_ReconnectsWithoutBound ==
    /\ [][/\ (lpc = "watch" /\ lpc' # "watch") => lpc' \in {"recv", "select"}
          /\ (lpc = "recv" /\ lpc' # "recv") => lpc' \in {"handle", "select"}
          /\ (lpc = "select" /\ lpc' # "select" /\ ~StopSignalled) => lpc' = "watch"]_vars
    /\ (lpc = "select" /\ hist.retried) ~> (lpc = "watch" \/ StopSignalled)

\* after a stream has ended or a Watch call has failed, a new subscription
\* has delivered an added event and the loop has applied it
C14_Witness ==
    /\ hist.retried
    /\ ~StopSignalled
    /\ lpc = "unlock"
    /\ event.type = "ADDED"
    /\ replaced = Nil
    /\ keyHashes[EventEntry.KeyHash] = EventEntry

\* C15: watchAPIKeys has returned only if Stop has closed stopCh or the
\* context has been cancelled, and it returns only from the stop check at the
\* top of the loop: no event (well-formed, without fields, without spec, a
\* bookmark, an error status), no end of a stream and no failed Watch call
\* makes it return.
C15_LoopReturnsOnlyOnStop ==
    /\ [](lpc = "returned" => StopSignalled)
    /\ [][(lpc # "returned" /\ lpc' = "returned") =>
            (lpc = "select" /\ StopSignalled)]_vars

\* the loop has returned on Stop alone, after it had applied a record
\* without keyHash
C15_Witness ==
    /\ lpc = "returned"
    /\ stopCh = "closed"
    /\ ~ctxDone
    /\ "" \in DOMAIN keyHashes

\* C16: once Stop has closed stopCh, the watch loop eventually returns (if it
\* was started at all), also when it is reading from a subscription that
\* delivers nothing more and does not end.
C16_StopEndsLoop == (stopCh = "closed") ~> (lpc \in {"off", "returned"})

\* C17: when the loop is at the top of an iteration and a stop signal has
\* been issued (stopCh closed or the context cancelled), its next step is
\* the return, never a Watch call, and once it has returned it stays so.
C17_NoSubscriptionAfterStop ==
    [][/\ (lpc = "select" /\ StopSignalled /\ lpc' # lpc) => lpc' = "returned"
       /\ lpc = "returned" => lpc' = "returned"]_vars

\* after a stream had ended, the next iteration found stopCh closed and
\* returned
C17_Witness ==
    /\ lpc = "returned"
    /\ hist.retried
    /\ stopCh = "closed"
    /\ ~ctxDone

\* the source has a record with this keyHash
SourceAsserts(h) ==
    \E n \in DOMAIN hist.records :
        /\ "spec" \in DOMAIN hist.records[n]
        /\ "keyHash" \in DOMAIN hist.records[n].spec
        /\ hist.records[n].spec.keyHash = h

\* C18: after the initial resync and the events processed so far (a list
\* that names each record once, added events for new records, modified
\* events for existing ones, deleted events carrying the record's last
\* state), every key of the map is the keyHash of a record the source has,
\* and every entry's record is one the source has: none whose last event was
\* a delete.
C18_IndexWithinSource ==
    (spc \in {"synced", "started"} /\ hist.consistent) =>
        \A h \in DOMAIN keyHashes :
            /\ SourceAsserts(h)
            /\ keyHashes[h].Name \in DOMAIN hist.records

\* a disabled entry for a hash
DisabledEntry(n, h) ==
    [Name |-> n, KeyHash |-> h, Description |-> "d1", Enabled |-> FALSE]

\* C19: a Check whose credential's hash is not in the map, or is there with
\* enabled false, returns DENY("Invalid or disabled API key"), and that
\* response is, field by field, the one Check gives the same request on the
\* map without the hash and on the map with a disabled entry under it.
C19_UnknownAndDisabledAlike ==
    (/\ wcall.op = "Check"
     /\ wpc = "done"
     /\ ExtractAPIKey(wcall.headers) # EmptyString
     /\ ~EnabledEntry(keyHashes, CallKey(wcall))) =>
        /\ wres = DenyResponse("Invalid or disabled API key")
        /\ wres = CheckOn(wcall.headers, Remove(keyHashes, CallKey(wcall)))
        /\ \A n \in Names :
            wres = CheckOn(wcall.headers,
                           Upsert(keyHashes, DisabledEntry(n, CallKey(wcall))))

\* a credential whose entry is disabled has been refused while the other
\* credential is not in the map at all
C19_Witness ==
    /\ wpc = "done"
    /\ wcall.op = "Check"
    /\ wcall.headers = XAPIKeyRequest(KeyB)
    /\ wres = DenyResponse("Invalid or disabled API key")
    /\ DOMAIN keyHashes = {HashAPIKey(KeyB)}
    /\ ~keyHashes[HashAPIKey(KeyB)].Enabled

\* the three decisions
Decisions ==
    {AllowResponse,
     DenyResponse("Missing API key"),
     DenyResponse("Invalid or disabled API key")}

\* C20: every Check returns, and what it returns is one of ALLOW,
\* DENY("Missing API key") and DENY("Invalid or disabled API key"): for
\* requests without attributes, without headers, with empty values, with
\* other schemes and other field names, against every map.
C20_CheckAlwaysDecides ==
    /\ (wcall.op = "Check" /\ wpc = "done") => wres \in Decisions
    /\ (wcall.op = "Check" /\ wpc = "unlock") => CheckDecision(wres.valid) \in Decisions
    /\ CheckOn(GetHeaders([attributes |-> Nil]), keyHashes)
            = DenyResponse("Missing API key")

\* an x-api-key field with the empty string as its value has been refused
\* as a missing key
C20_Witness ==
    /\ wpc = "done"
    /\ wcall.op = "Check"
    /\ wcall.headers = XAPIKeyRequest(EmptyString)
    /\ wres = DenyResponse("Missing API key")
    /\ keyHashes # EmptyIndex

\* C21: what Check returns is a refusal or an admission.  A refusal has
\* HTTP status Forbidden, its body is its message, and its only header is
\* content-type: text/plain.  An admission has status OK and an OK response
\* that carries no body (nor status, nor headers).
C21_DecisionShape ==
    (wcall.op = "Check" /\ wpc = "done") =>
        \/ /\ wres.status.code = "PermissionDenied"
           /\ wres.http.kind = "DeniedResponse"
           /\ wres.http.status = "Forbidden"
           /\ wres.http.body = wres.status.message
           /\ wres.http.body \in {"Missing API key", "Invalid or disabled API key"}
           /\ wres.http.headers = <<[key |-> "content-type", value |-> "text/plain"]>>
        \/ /\ wres.status.code = "OK"
           /\ wres.http.kind = "OkResponse"
           /\ DOMAIN wres.http = {"kind"}

\* a request with another scheme and an unknown x-api-key value has been
\* refused with the message as body
C21_Witness ==
    /\ wpc = "done"
    /\ wcall.op = "Check"
    /\ wcall.headers = ("authorization" :> (Basic \o KeyA)) @@ ("x-api-key" :> KeyA)
    /\ wres.http.status = "Forbidden"
    /\ wres.http.body = "Invalid or disabled API key"

\* C22: the statistics GetStats has assembled (read lock still held) and the
\* statistics it has returned satisfy total = enabled + disabled with no
\* negative value, and while the lock is held the total is the number of
\* entries of the map and the two counts are the numbers of its enabled and
\* disabled entries: right after a resync and while the watch loop applies
\* events.
C22_StatsAddUp ==
    (wcall.op = "GetStats" /\ wpc \in {"unlock", "done"}) =>
        /\ wres.total = wres.enabled + wres.disabled
        /\ wres.total >= 0 /\ wres.enabled >= 0 /\ wres.disabled >= 0
        /\ wpc = "unlock" =>
            /\ wres.total = Cardinality(DOMAIN keyHashes)
            /\ wres.enabled = Cardinality({h \in DOMAIN keyHashes : keyHashes[h].Enabled})
            /\ wres.disabled = Cardinality({h \in DOMAIN keyHashes : ~keyHashes[h].Enabled})

\* GetStats has counted one enabled and one disabled entry while the watch
\* loop holds the next event and waits for the lock
C22_Witness ==
    /\ wcall.op = "GetStats"
    /\ wpc = "unlock"
    /\ wres = [total |-> 2, enabled |-> 1, disabled |-> 1]
    /\ lpc = "handle"
    /\ event.type = "DELETED"

\* C23: while syncAPIKeys is between its List call and its return the watch
\* goroutine has not been started; the write lock has one holder, the
\* resync or the event handler; the map changes only in a step of that
\* holder; and no step of ValidateKey, GetStats or Check changes the map.
C23_SingleWriter ==
    /\ [](/\ spc \in {"sync_lock", "sync_clear", "sync_fill", "synced"} => lpc = "off"
          /\ mu.writer =>
                (spc \in {"sync_clear", "sync_fill"}) # (lpc \in {"write", "unlock"}))
    /\ [][/\ keyHashes' # keyHashes =>
                /\ mu.writer
                /\ mu.readers = 0
                /\ \/ spc \in {"sync_clear", "sync_fill"} /\ lpc' = lpc
                   \/ lpc = "write" /\ lpc' = "unlock" /\ spc' = spc
                /\ <<wpc, wcall, wres>>' = <<wpc, wcall, wres>>
          /\ <<wpc, wcall, wres>>' # <<wpc, wcall, wres>> => keyHashes' = keyHashes]_vars

\* the event handler has written a new entry while a Check waits for the
\* read lock
C23_Witness ==
    /\ lpc = "unlock"
    /\ replaced = Nil
    /\ event.type = "ADDED"
    /\ keyHashes[EventEntry.KeyHash] = EventEntry
    /\ wpc = "rlock"
    /\ wcall.op = "Check"

\* C24: a step in which the Watch call fails or the stream ends (the loop
\* goes from the Watch call or the receive back to its select) leaves the map,
\* the result of Start and the request in flight as they were, so every
\* request has the decision it had before; and a Check made after such a
\* failure, while the loop has no subscription, is decided from the map as
\* it is at the lookup.
C24_SubscriptionFailureKeepsIndex ==
    /\ [][(lpc \in {"watch", "recv"} /\ lpc' = "select") =>
            /\ keyHashes' = keyHashes
            /\ spc = "started"
            /\ spc' = spc
            /\ <<wpc, wcall, wres>>' = <<wpc, wcall, wres>>
            /\ \A headers \in CoreRequests :
                    CheckOn(headers, keyHashes') = CheckOn(headers, keyHashes)]_vars
    /\ []((hist.outageCall /\ wcall.op = "Check" /\ wpc = "unlock") =>
            wres.valid = EnabledEntry(keyHashes, HashAPIKey(ExtractAPIKey(wcall.headers))))

\* a Check made after a failure, with the loop still without a subscription,
\* has been allowed on the entry the map has
C24_Witness ==
    /\ spc = "started"
    /\ hist.retried
    /\ hist.outageCall
    /\ lpc \in {"select", "watch"}
    /\ wcall.op = "Check"
    /\ wpc = "done"
    /\ wres = AllowResponse

\* sub occurs in s
Contains(s, sub) ==
    \E i \in 0..(Len(s) - Len(sub)) : SubSeq(s, i + 1, i + Len(sub)) = sub

\* C25: the line Check logs for a request with a credential never shows the
\* credential in full: on deny its argument is a text that does not contain
\* the credential, on allow it is the first twelve characters of the digest.
C25_LogHidesCredential ==
    (wcall.op = "Check" /\ wpc = "done" /\ ~NoAPIKey(ExtractAPIKey(wcall.headers))) =>
        LET apiKey == ExtractAPIKey(wcall.headers)
            line == CheckLog(apiKey, wres = AllowResponse)
        IN  /\ Len(line.args) = 1
            /\ IF wres = AllowResponse
               THEN line.args[1] = [kind |-> "digest", of |-> HashAPIKey(apiKey), first |-> 12]
               ELSE /\ line.args[1].kind = "text"
                    /\ ~Contains(line.args[1].chars, apiKey)

\* the key a record with a spec is stored under
StoredUnder(obj) ==
    IF "keyHash" \in DOMAIN obj.spec THEN obj.spec.keyHash ELSE ""

\* the enabled flag the source gives a record: its field, or true without one
SourceEnabled(obj) ==
    IF "enabled" \in DOMAIN obj.spec THEN obj.spec.enabled ELSE TRUE

\* C26: a record stored by the resync or by an added or modified event has
\* the enabled flag of its spec, and true when the spec has no enabled
\* field; ValidateKey of its hash answers that flag right after the step.
C26_EnabledDefaultsToTrue ==
    [][/\ (spc = "sync_fill" /\ item' = item + 1 /\ "spec" \in DOMAIN list[item]) =>
            /\ StoredUnder(list[item]) \in DOMAIN keyHashes'
            /\ keyHashes'[StoredUnder(list[item])].Enabled = SourceEnabled(list[item])
            /\ ValidateKey(keyHashes', StoredUnder(list[item])) = SourceEnabled(list[item])
       /\ (Applying /\ event.type \in {"ADDED", "MODIFIED"}) =>
            /\ StoredUnder(event.object) \in DOMAIN keyHashes'
            /\ keyHashes'[StoredUnder(event.object)].Enabled = SourceEnabled(event.object)
            /\ ValidateKey(keyHashes', StoredUnder(event.object)) = SourceEnabled(event.object)]_vars

\* a record added without an enabled field is stored enabled, next to a
\* disabled one
C26_Witness ==
    /\ spc = "started"
    /\ HashAPIKey(KeyA) \in DOMAIN keyHashes
    /\ ~keyHashes[HashAPIKey(KeyA)].Enabled
    /\ lpc = "unlock"
    /\ event = [type |-> "ADDED",
                object |-> [kind |-> "Unstructured", name |-> "n2",
                            spec |-> [keyHash |-> HashAPIKey(KeyB), description |-> "d1"]]]
    /\ replaced = Nil
    /\ ValidateKey(keyHashes, HashAPIKey(KeyB))

\* C27: applying an added or modified event puts the event's record under
\* the key of its hash, whatever was there and whatever its name; applying an
\* added, modified or deleted event leaves every other key as it was, in the
\* map or not, with the same entry.
C27_EventTouchesOnlyItsKey ==
    [][Applying =>
        LET h == StoredUnder(event.object)
        IN  /\ event.type \in {"ADDED", "MODIFIED"} =>
                /\ h \in DOMAIN keyHashes'
                /\ keyHashes'[h] = EventEntry
            /\ \A k \in (DOMAIN keyHashes \cup DOMAIN keyHashes') \ {h} :
                /\ k \in DOMAIN keyHashes
                /\ k \in DOMAIN keyHashes'
                /\ keyHashes'[k] = keyHashes[k]]_vars

\* a modified event has replaced the entry of another record that had the
\* same hash, and an entry under another key is still there
C27_Witness ==
    /\ lpc = "unlock"
    /\ event.type = "MODIFIED"
    /\ replaced # Nil
    /\ replaced.Name # EventEntry.Name
    /\ keyHashes[EventEntry.KeyHash] = EventEntry
    /\ \E k \in DOMAIN keyHashes :
        /\ k # EventEntry.KeyHash
        /\ keyHashes[k].Name = EventEntry.Name

\* C28: the write lock is held only inside the fill of syncAPIKeys and inside
\* the switch of handleWatchEvent, never while Start waits for the List call
\* or the loop waits for the Watch call or the next event; and a call that
\* waits for the read lock gets it.
C28_LockNeverHeldAcrossIO ==
    /\ [](/\ mu.writer = (spc \in {"sync_clear", "sync_fill"} \/ lpc \in {"write", "unlock"})
          /\ (spc \in {"new", "sync_lock"} /\ lpc = "off") => ~mu.writer
          /\ lpc \in {"select", "watch", "recv", "handle"} => ~mu.writer)
    /\ (wpc = "rlock") ~> (wpc = "read")

\* a call waits for the read lock while handleWatchEvent holds the write lock
C28_Witness ==
    /\ wpc = "rlock"
    /\ mu.writer
    /\ lpc = "unlock"
    /\ event.type = "MODIFIED"

\* the answers ValidateKey gives on what the map has held for the call
SeenAnswers == {e # Nil /\ e.Enabled : e \in hist.seen}

\* C29: the answer of a ValidateKey call is the one for the map as it was
\* when the call was made or after a write completed while the call was
\* looking for the lock; when there was no such write it is the answer for
\* the map as it is, with every event applied before the call.
C29_CallSeesAppliedEvents ==
    (wcall.op \in {"Check", "ValidateKey"} /\ wpc = "unlock") =>
        /\ wres.valid \in SeenAnswers
        /\ ~hist.wrote => wres.valid = EnabledEntry(keyHashes, CallKey(wcall))
        /\ hist.wrote => Lookup(keyHashes, CallKey(wcall)) \in hist.seen

\* a call made while its hash was enabled was overtaken by the event that
\* deleted the entry, and answers for the map after it
C29_Witness ==
    /\ wcall.op = "ValidateKey"
    /\ wpc = "unlock"
    /\ hist.wrote
    /\ \E e \in hist.seen : e # Nil /\ e.Enabled
    /\ Nil \in hist.seen
    /\ wres = [valid |-> FALSE]
    /\ lpc = "recv"

\* the keyHash the source has recorded for the record named n
RecordedHash(n) == hist.records[n].spec.keyHash

\* C30: when a modified event gives the record named N a keyHash other than
\* the one the source had for it, and no other record has the old one, then
\* once the event is applied ValidateKey of the old hash is false, ValidateKey
\* of the new hash is the record's enabled flag, and the map has at most one
\* entry of that name.
C30_RotationLeavesNoStaleKey ==
    [][(/\ Applying
        /\ event.type = "MODIFIED"
        /\ hist.consistent
        /\ event.object.name \in DOMAIN hist.records
        /\ RecordedHash(event.object.name) # event.object.spec.keyHash
        /\ \A m \in DOMAIN hist.records \ {event.object.name} :
                RecordedHash(m) # RecordedHash(event.object.name)) =>
            /\ ~ValidateKey(keyHashes', RecordedHash(event.object.name))
            /\ ValidateKey(keyHashes', event.object.spec.keyHash) = event.object.spec.enabled
            /\ Cardinality({k \in DOMAIN keyHashes' :
                    keyHashes'[k].Name = event.object.name}) <= 1]_vars

\* every hash the map validates is the keyHash of an enabled record of the
\* source
Converged ==
    \A h \in Hashes :
        ValidateKey(keyHashes, h) =>
            \E n \in DOMAIN source.records :
                /\ source.records[n].spec.keyHash = h
                /\ source.records[n].spec.enabled

\* the watch is open and the loop has applied everything sent on it
CaughtUp == lpc = "recv" /\ source.stream = <<>>

\* C31: whenever the watch is open and everything sent on it has been
\* applied, the map comes to validate no hash but those of enabled records
\* of the source, also for records deleted or disabled while no watch was
\* open, unless the store is stopped first.
C31_ConvergesAfterReconnect ==
    (CaughtUp /\ ~StopSignalled) ~> (Converged \/ StopSignalled)

\* C32: whenever and however often Stop is called, also after the context
\* was cancelled and the loop has returned, the process does not panic: the
\* channel is open or closed, and no goroutine has been taken down.
C32_StopNeverPanics ==
    /\ stopCh \in {"open", "closed"}
    /\ "crashed" \notin {spc, lpc, wpc}

====
